---------------------------- MODULE Spec2Model ----------------------------
(***************************************************************************)
(* Model of hotsos/core/ycheck/engine/properties/common.py:                *)
(*   - LogicalCollectionHandler (the logical tree evaluator),              *)
(*   - PropertyCache (per-property cache with dict values held by          *)
(*     reference),                                                         *)
(*   - PropertyCacheRefResolver (reference strings and their resolution),  *)
(*   - YDefsContext (the context of a run),                                *)
(*   - YPropertyBase (dynamic lookup through the import cache),            *)
(*   - cached_yproperty_attr (cached attribute of a property).             *)
(* Each component has its own specification (SpecLogic, SpecCache,         *)
(* SpecRef, SpecContext, SpecImport, SpecAttr); a specification leaves the *)
(* other components' variables at their initial values.                    *)
(***************************************************************************)
EXTENDS Integers, Sequences, FiniteSets, TLC

VARIABLES
    \* ---- LogicalCollectionHandler.run_collection ----
    lpc,            \* position of run_collection
    itemsDone,      \* items of the level already iterated
    nodesUsed,      \* groups and ungrouped children handed out so far
    item,           \* the item run_level is working on
    opIdx,          \* index into VALID_GROUP_KEYS inside run_op_groups
    op_results,     \* run_op_groups' local final_results
    subIdx,         \* index of the subitem in run_level's inner loop
    final_results,  \* run_level's final_results
    verdict,        \* what run_collection returned
    lastGroup,      \* the run_logical_op_group call just made, its outcome
    singleCalls,    \* names of the subitems handed to run_single
    expected,       \* history: conjunction of the collected booleans
    treeKeys,       \* history: names of the truthy groups and of the other
                    \* children iterated so far
    evals,          \* history: what the run evaluated, and how
    \* ---- PropertyCache ----
    nCalls,         \* PropertyCache calls made so far
    cacheData,      \* cache id -> _property_cache_data
    heap,           \* dict objects, held by reference
    call,           \* the last PropertyCache call and its outcome
    \* ---- PropertyCacheRefResolver ----
    resolver,       \* the last constructor / resolve call and its outcome
    \* ---- YDefsContext ----
    ydefs_context,  \* the context's _ydefs_context
    ctxCall,        \* the last attribute get / set on the context
    \* ---- YPropertyBase ----
    nLookups,       \* get_* calls made so far
    made,           \* class name -> instances constructed so far
    lookup,         \* the last get_* call, what it did and its outcome
    \* ---- cached_yproperty_attr ----
    yattr           \* accesses of the wrapped attribute and runs of f

logicVars == <<lpc, itemsDone, nodesUsed, item, opIdx, op_results, subIdx,
               final_results, verdict, lastGroup, singleCalls, expected,
               treeKeys, evals>>
cacheVars == <<nCalls, cacheData, heap, call>>
refVars   == <<resolver>>
ctxVars   == <<ydefs_context, ctxCall>>
importVars == <<nLookups, made, lookup>>
attrVars  == <<yattr>>
vars      == <<logicVars, cacheVars, refVars, ctxVars, importVars, attrVars>>

None == [t |-> "None"]

-----------------------------------------------------------------------------
(* Bounds of the model.                                                    *)

\* items one level holds at most
MaxItems == 2
\* groups plus ungrouped children handed out in one run at most
MaxNodes == 2
\* entries one group holds at most
MaxMembers == 2
\* booleans one run_single call returns at most
MaxSingleResults == 1

BoolSeqs(n) == UNION {[1..k -> BOOLEAN] : k \in 0..n}

RECURSIVE TotalLen(_)
TotalLen(ss) == IF ss = <<>> THEN 0 ELSE Len(Head(ss)) + TotalLen(Tail(ss))

\* logical_op_group.members: a list of member items, each a list of entries;
\* an entry is represented by the boolean it yields when evaluated.
MemberItems == BoolSeqs(MaxMembers) \ {<<>>}
MemberLists ==
    {m \in UNION {[1..k -> MemberItems] : k \in 0..MaxMembers} :
        TotalLen(m) <= MaxMembers}

-----------------------------------------------------------------------------
(* LogicalCollectionHandler                                                *)

VALID_GROUP_KEYS == <<"and", "or", "nand", "nor", "xor", "not">>

GroupKeySet == {VALID_GROUP_KEYS[i] : i \in DOMAIN VALID_GROUP_KEYS}

\* names of children that are not group keys: an ordinary property and a
\* would-be operator outside the valid six
PlainNames == {"requires", "xand"}

\* Python's all() and any(): left to right, stopping at the first decider.
RECURSIVE py_all(_)
py_all(s) == IF s = <<>> THEN TRUE
             ELSE IF Head(s) THEN py_all(Tail(s)) ELSE FALSE

RECURSIVE py_any(_)
py_any(s) == IF s = <<>> THEN FALSE
             ELSE IF Head(s) THEN TRUE ELSE py_any(Tail(s))

\* group_results: for item in members: for entry in item: append its result.
RECURSIVE group_results(_)
group_results(members) ==
    IF members = <<>> THEN <<>>
    ELSE Head(members) \o group_results(Tail(members))

\* what get_item_result_callback does with an entry: it returns the entry's
\* boolean, or raises NotImplementedError (the inherited one always does)
CallbackOutcomes == {"returns", "NotImplementedError"}

\* the callback's outcome for every entry of a group: the inherited
\* get_item_result_callback raises for each, an overriding one may do either
CallbackLists(members, overridden) ==
    {c \in [DOMAIN members ->
               UNION {[1..k -> CallbackOutcomes] : k \in 1..MaxMembers}] :
        \A i \in DOMAIN members :
            /\ Len(c[i]) = Len(members[i])
            /\ ~overridden =>
                  \A j \in DOMAIN c[i] : c[i][j] = "NotImplementedError"}

\* group_results, one entry: try the callback, call the entry itself in the
\* handler of NotImplementedError
entry_call(i, j, b, cb) ==
    [item |-> i, entry |-> j, result |-> b,
     via |-> IF cb = "NotImplementedError" THEN "entry" ELSE "callback"]

\* group_results, the evaluations it makes in order: for item in members,
\* for entry in item
RECURSIVE group_calls_from(_, _, _)
group_calls_from(i, members, cbs) ==
    IF i > Len(members) THEN <<>>
    ELSE [j \in 1..Len(members[i]) |->
             entry_call(i, j, members[i][j], cbs[i][j])]
         \o group_calls_from(i + 1, members, cbs)

RECURSIVE UpToFirstFalse(_)
UpToFirstFalse(calls) ==
    IF calls = <<>> THEN <<>>
    ELSE IF Head(calls).result THEN <<Head(calls)>> \o UpToFirstFalse(Tail(calls))
    ELSE <<Head(calls)>>

group_calls_short_circuit(members, cbs) ==
    UpToFirstFalse(group_calls_from(1, members, cbs))

group_calls(members, cbs) == group_calls_from(1, members, cbs)

Raised(msg) == [raised |-> TRUE, error |-> msg]
Returned(v) == [raised |-> FALSE, result |-> v]

run_logical_op_group_nor_as_nand(name, members) ==
    IF name = "and" THEN Returned(py_all(group_results(members)))
    ELSE IF name = "or" THEN Returned(py_any(group_results(members)))
    ELSE IF name \in {"nand", "not", "nor"}
        THEN Returned(~py_all(group_results(members)))
    ELSE Raised("unknown logical operator")

run_logical_op_group_xor_as_or(name, members) ==
    IF name = "and" THEN Returned(py_all(group_results(members)))
    ELSE IF name \in {"or", "xor"}
        THEN Returned(py_any(group_results(members)))
    ELSE IF name \in {"nand", "not"}
        THEN Returned(~py_all(group_results(members)))
    ELSE IF name = "nor" THEN Returned(~py_any(group_results(members)))
    ELSE Raised("unknown logical operator")

\* run_logical_op_group: the combinator of the group's name over
\* group_results, or the unknown-operator exception
run_logical_op_group(name, members) ==
    IF name = "and" THEN Returned(py_all(group_results(members)))
    ELSE IF name = "or" THEN Returned(py_any(group_results(members)))
    ELSE IF name \in {"nand", "not"}
        THEN Returned(~py_all(group_results(members)))
    ELSE IF name = "nor" THEN Returned(~py_any(group_results(members)))
    ELSE Raised("unknown logical operator")

run_logical_op_group_calls_before_raise(name, members, cbs) ==
    group_calls(members, cbs)

\* run_logical_op_group: the evaluations it makes; group_results is called in
\* the branches of the five combinators and not in the else branch
run_logical_op_group_calls(name, members, cbs) ==
    IF name \in {"and", "or", "nand", "not", "nor"}
    THEN group_calls(members, cbs)
    ELSE <<>>

\* An item of the level: its present (truthy) groups, the children under a
\* group key that are falsy (getattr(item, op) does not pass "if op_group"),
\* and its other children.
Items ==
    {it \in [groups : SUBSET GroupKeySet, falsy : SUBSET GroupKeySet,
              singles : UNION {[1..k -> PlainNames] : k \in 0..MaxNodes}] :
        it.groups \cap it.falsy = {}}

Nodes(it) == Cardinality(it.groups) + Cardinality(it.falsy) + Len(it.singles)

\* getattr(item, op): the group of that name, None when the item has none.
HasGroup(it, op) == op \in it.groups

\* "for subitem in item": the groups of the item, then its other children.
Subitems(it) ==
    SelectSeq(VALID_GROUP_KEYS, LAMBDA k : k \in it.groups \cup it.falsy)
       \o it.singles

\* a step of the evaluator leaves the other components alone
LogicOnly == UNCHANGED <<cacheVars, refVars, ctxVars, importVars, attrVars>>

NoItem == [groups |-> {}, falsy |-> {}, singles |-> <<>>]
NoGroup == [name |-> "", results |-> <<>>, outcome |-> None]
\* nothing evaluated yet. overridden: the handler overrides
\* get_item_result_callback; members, callbacks, calls: the group handed to
\* the latest run_logical_op_group call, what the callback does with its
\* entries, and the evaluations that call made; present, children: the
\* truthy groups and the children under no group key of the items iterated,
\* by item number; groupRuns, singleRuns: the run_logical_op_group and
\* run_single calls made, in order; entries, entryRuns: the entries of the
\* groups handed over and the evaluations of entries made, counted; skipped:
\* the names of the subitems run_level passed over
NoEvals ==
    [overridden |-> FALSE, members |-> <<>>, callbacks |-> <<>>,
     calls |-> <<>>, present |-> {}, children |-> {}, groupRuns |-> <<>>,
     singleRuns |-> <<>>, entries |-> 0, entryRuns |-> 0, skipped |-> {}]

\* the history after run_logical_op_group was handed the group of that name
\* of item number n
GroupCall(ev, n, name, members, cbs) ==
    [ev EXCEPT
       !.members = members,
       !.callbacks = cbs,
       !.calls = run_logical_op_group_calls(name, members, cbs),
       !.groupRuns = Append(@, <<n, name>>),
       !.entries = @ + TotalLen(members),
       !.entryRuns = @ + Len(run_logical_op_group_calls(name, members, cbs))]

\* What the claim calls the value of a group: quantifiers over the members.
GroupValue(name, bs) ==
    CASE name = "and" -> \A i \in DOMAIN bs : bs[i]
      [] name = "or" -> \E i \in DOMAIN bs : bs[i]
      [] name \in {"nand", "not"} -> ~(\A i \in DOMAIN bs : bs[i])
      [] name = "nor" -> ~(\E i \in DOMAIN bs : bs[i])

\* the latest run_logical_op_group call made no evaluation (there was none)
NoGroupCall(ev) ==
    [ev EXCEPT !.members = <<>>, !.callbacks = <<>>, !.calls = <<>>]

\* the positions in "for subitem in item" of the children under no group key
PlainChildren(it) ==
    {k \in DOMAIN Subitems(it) : Subitems(it)[k] \notin GroupKeySet}

\* A direct call of run_logical_op_group on a group of any name, of a handler
\* that inherits get_item_result_callback.
CallRunLogicalOpGroup ==
    /\ lpc = "idle"
    /\ \E name \in GroupKeySet \cup PlainNames, members \in MemberLists :
        \E cbs \in CallbackLists(members, FALSE) :
          /\ lastGroup' = [name |-> name, results |-> group_results(members),
                           outcome |-> run_logical_op_group(name, members)]
          /\ evals' = GroupCall(NoEvals, 0, name, members, cbs)
    /\ UNCHANGED <<lpc, itemsDone, nodesUsed, item, opIdx, op_results, subIdx,
                   final_results, verdict, singleCalls, expected, treeKeys>>
    /\ LogicOnly

\* run_collection: all_results = self.run_level(self)
RunCollectionStart ==
    /\ lpc = "idle"
    /\ lpc' = "level"
    /\ final_results' = <<>>
    /\ lastGroup' = NoGroup
    /\ \E overridden \in BOOLEAN :
          evals' = [NoEvals EXCEPT !.overridden = overridden]
    /\ UNCHANGED <<itemsDone, nodesUsed, item, opIdx, op_results, subIdx,
                   verdict, singleCalls, expected, treeKeys>>
    /\ LogicOnly

\* run_level: "for item in level" yields the next item; run_op_groups starts.
RunLevelNextItem ==
    /\ lpc = "level"
    /\ itemsDone < MaxItems
    /\ \E it \in Items :
          /\ nodesUsed + Nodes(it) <= MaxNodes
          /\ item' = it
          /\ nodesUsed' = nodesUsed + Nodes(it)
          /\ treeKeys' = treeKeys \cup it.groups
                           \cup {it.singles[i] : i \in DOMAIN it.singles}
          /\ evals' = [NoGroupCall(evals) EXCEPT
                          !.present = @ \cup {<<itemsDone + 1, g>> :
                                                 g \in it.groups},
                          !.children = @ \cup {<<itemsDone + 1, k>> :
                                                  k \in PlainChildren(it)}]
    /\ lpc' = "op_groups"
    /\ opIdx' = 1
    /\ op_results' = <<>>
    /\ lastGroup' = NoGroup
    /\ UNCHANGED <<itemsDone, subIdx, final_results, verdict, singleCalls,
                   expected>>
    /\ LogicOnly

\* run_op_groups has gone through every key: run_level extends final_results
\* with what it returned and turns to the subitems.
OpGroupsAdvance(results) ==
    IF opIdx = Len(VALID_GROUP_KEYS)
    THEN /\ lpc' = "subitems"
         /\ final_results' = final_results \o results
         /\ op_results' = <<>>
         /\ opIdx' = 0
         /\ subIdx' = 1
    ELSE /\ lpc' = "op_groups"
         /\ op_results' = results
         /\ opIdx' = opIdx + 1
         /\ UNCHANGED <<final_results, subIdx>>

\* run_op_groups: getattr(item, op) is None (or falsy)
RunOpGroupsAbsent ==
    /\ lpc = "op_groups"
    /\ ~HasGroup(item, VALID_GROUP_KEYS[opIdx])
    /\ OpGroupsAdvance(op_results)
    /\ lastGroup' = NoGroup
    /\ evals' = NoGroupCall(evals)
    /\ UNCHANGED <<itemsDone, nodesUsed, item, verdict, singleCalls, expected,
                   treeKeys>>
    /\ LogicOnly

\* run_op_groups: the group is there and run_logical_op_group returns
RunOpGroupsPresent ==
    /\ lpc = "op_groups"
    /\ HasGroup(item, VALID_GROUP_KEYS[opIdx])
    /\ \E members \in MemberLists :
        LET name == VALID_GROUP_KEYS[opIdx]
            out == run_logical_op_group(name, members)
        IN /\ ~out.raised
           /\ lastGroup' = [name |-> name, results |-> group_results(members),
                         outcome |-> out]
           /\ \E cbs \in CallbackLists(members, evals.overridden) :
                 evals' = GroupCall(evals, itemsDone + 1, name, members, cbs)
           /\ OpGroupsAdvance(Append(op_results, out.result))
           /\ expected' = (expected /\ GroupValue(name, group_results(members)))
    /\ UNCHANGED <<itemsDone, nodesUsed, item, verdict, singleCalls, treeKeys>>
    /\ LogicOnly

\* run_op_groups: the group is there and run_logical_op_group raises; the
\* exception leaves run_op_groups, run_level and run_collection.
RunOpGroupsRaise ==
    /\ lpc = "op_groups"
    /\ HasGroup(item, VALID_GROUP_KEYS[opIdx])
    /\ \E members \in MemberLists :
        LET name == VALID_GROUP_KEYS[opIdx]
            out == run_logical_op_group(name, members)
        IN /\ out.raised
           /\ lastGroup' = [name |-> name, results |-> <<>>, outcome |-> out]
           /\ \E cbs \in CallbackLists(members, evals.overridden) :
                 evals' = GroupCall(evals, itemsDone + 1, name, members, cbs)
    /\ lpc' = "error"
    /\ UNCHANGED <<itemsDone, nodesUsed, item, opIdx, op_results, subIdx,
                   final_results, verdict, singleCalls, expected, treeKeys>>
    /\ LogicOnly

\* run_level's inner loop is through: back to "for item in level".
SubitemsAdvance ==
    IF subIdx = Len(Subitems(item))
    THEN /\ lpc' = "level"
         /\ itemsDone' = itemsDone + 1
         /\ subIdx' = 0
         /\ item' = NoItem
    ELSE /\ lpc' = "subitems"
         /\ subIdx' = subIdx + 1
         /\ UNCHANGED <<itemsDone, item>>

\* run_level: the item has no subitem at all
RunLevelNoSubitems ==
    /\ lpc = "subitems"
    /\ Subitems(item) = <<>>
    /\ lpc' = "level"
    /\ itemsDone' = itemsDone + 1
    /\ subIdx' = 0
    /\ item' = NoItem
    /\ lastGroup' = NoGroup
    /\ evals' = NoGroupCall(evals)
    /\ UNCHANGED <<nodesUsed, opIdx, op_results, final_results, verdict,
                   singleCalls, expected, treeKeys>>
    /\ LogicOnly

\* run_level: subitem._override_name in VALID_GROUP_KEYS, nothing to do
RunLevelSkipGroup ==
    /\ lpc = "subitems"
    /\ subIdx \in DOMAIN Subitems(item)
    /\ Subitems(item)[subIdx] \in GroupKeySet
    /\ SubitemsAdvance
    /\ lastGroup' = NoGroup
    /\ evals' = [NoGroupCall(evals) EXCEPT
                    !.skipped = @ \cup {Subitems(item)[subIdx]}]
    /\ UNCHANGED <<nodesUsed, opIdx, op_results, final_results, verdict,
                   singleCalls, expected, treeKeys>>
    /\ LogicOnly

\* run_level: final_results.extend(self.run_single(subitem))
RunLevelRunSingle ==
    /\ lpc = "subitems"
    /\ subIdx \in DOMAIN Subitems(item)
    /\ Subitems(item)[subIdx] \notin GroupKeySet
    /\ \E rs \in BoolSeqs(MaxSingleResults) :
          /\ final_results' = final_results \o rs
          /\ expected' = (expected /\ \A i \in DOMAIN rs : rs[i])
    /\ singleCalls' = singleCalls \cup {Subitems(item)[subIdx]}
    /\ SubitemsAdvance
    /\ lastGroup' = NoGroup
    /\ evals' = [NoGroupCall(evals) EXCEPT
                    !.singleRuns = Append(@, <<itemsDone + 1, subIdx>>)]
    /\ UNCHANGED <<nodesUsed, opIdx, op_results, verdict, treeKeys>>
    /\ LogicOnly

run_collection_result_any(results) == py_any(results)

\* run_collection: result = all(all_results)
run_collection_result(results) == py_all(results)

\* run_level has returned ("for item in level" is exhausted)
RunCollectionReturn ==
    /\ lpc = "level"
    /\ verdict' = run_collection_result(final_results)
    /\ lpc' = "done"
    /\ UNCHANGED <<itemsDone, nodesUsed, item, opIdx, op_results, subIdx,
                   final_results, lastGroup, singleCalls, expected, treeKeys,
                   evals>>
    /\ LogicOnly

NextLogic ==
    \/ CallRunLogicalOpGroup
    \/ RunCollectionStart
    \/ RunLevelNextItem
    \/ RunOpGroupsAbsent
    \/ RunOpGroupsPresent
    \/ RunOpGroupsRaise
    \/ RunLevelNoSubitems
    \/ RunLevelSkipGroup
    \/ RunLevelRunSingle
    \/ RunCollectionReturn

-----------------------------------------------------------------------------
(* Claims about LogicalCollectionHandler, checked under SpecLogic          *)

Combinators == {"and", "or", "nand", "nor", "not"}

\* C1: for every group name with a combinator and every list of member
\* booleans, run_logical_op_group returns all(members) for 'and',
\* any(members) for 'or', not all(members) for 'nand' and 'not', and
\* not any(members) for 'nor'; on the empty list 'and' and 'nor' give TRUE,
\* 'or', 'nand' and 'not' give FALSE.
C1_GroupCombinators ==
    lastGroup.name \in Combinators =>
        /\ ~lastGroup.outcome.raised
        /\ lastGroup.outcome.result
             = GroupValue(lastGroup.name, lastGroup.results)
        /\ lastGroup.results = <<>> =>
             lastGroup.outcome.result = (lastGroup.name \in {"and", "nor"})

\* a 'nor' group over the empty member list was evaluated to TRUE, inside a
\* run of run_collection
C1_Witness ==
    /\ lpc \in {"op_groups", "subitems"}
    /\ lastGroup.name = "nor"
    /\ lastGroup.results = <<>>
    /\ lastGroup.outcome = Returned(TRUE)

\* C2: run_collection returns true iff every collected boolean is true: the
\* value of each present and/or/nand/nor/not group and every boolean that
\* run_single returned for a child whose name is no group key; with nothing
\* collected the verdict is true.
C2_VerdictIsConjunction ==
    lpc = "done" =>
        /\ verdict = expected
        /\ final_results = <<>> => verdict = TRUE

\* a run that collected a group value and a run_single boolean and returned
\* FALSE
C2_Witness ==
    /\ lpc = "done"
    /\ verdict = FALSE
    /\ Len(final_results) >= 2
    /\ singleCalls # {}
    /\ treeKeys \cap Combinators # {}

\* the would-be operator key outside the valid six
UnknownGroupKey == "xand"

\* C3 as stated: a child carrying a group key outside the valid six makes
\* run_collection abort with the unknown-operator error, no verdict returned.
C3_UnknownKeyAborts ==
    UnknownGroupKey \in treeKeys => (lpc # "done" /\ verdict = None)

\* C3 as amended: run_logical_op_group raises the unknown-operator error for
\* every group name without a combinator, but run_collection only hands it
\* the groups under the six valid keys: a run aborts with that error exactly
\* when an iterated item has a present 'xor' group, and a child whose name is
\* none of the six keys is passed to run_single and the run returns a verdict.
C3_OnlyXorAborts ==
    /\ (lastGroup.name # "" /\ lastGroup.name \notin Combinators)
          => lastGroup.outcome.raised
    /\ lpc = "error" =>
          (lastGroup.name = "xor" /\ "xor" \in treeKeys /\ verdict = None)
    /\ lpc = "done" =>
          /\ "xor" \notin treeKeys
          /\ (treeKeys \ GroupKeySet) = singleCalls
          /\ verdict = run_collection_result(final_results)

\* a finished run whose tree held a child named by the unknown key: it went
\* to run_single and a verdict came back
C3_Witness ==
    /\ lpc = "done"
    /\ UnknownGroupKey \in treeKeys
    /\ UnknownGroupKey \in singleCalls

-----------------------------------------------------------------------------
(* PropertyCache                                                           *)

\* dict objects alive at most
MaxDicts == 2
\* PropertyCache calls in one run at most
MaxCalls == 3

\* two PropertyCache objects and one object of a subclass of PropertyCache
CacheIds == {"A", "B", "X"}
KindOf(c) == IF c = "X" THEN "PropertyCacheSubclass" ELSE "PropertyCache"
\* what a caller may hand to merge: a cache, or something that is no cache
MergeArgs == CacheIds \cup {"None"}

\* A string is the sequence of its tokens: a name, or one of the characters
\* "@", "$", "." and ":".
Str(token) == <<token>>

\* cache keys; "data" is also the name of a property of the class
Keys == {Str("k"), Str("data")}
\* names that normal attribute lookup finds on a PropertyCache object, so
\* that __getattr__ is never asked for them
PropertyCacheAttrs ==
    {Str("merge"), Str("id"), Str("set"), Str("data"),
     Str("_property_cache_data")}

SubKeys == {"a", "b"}
SubValues == {"v1", "v2"}
IntValue(n) == [t |-> "int", v |-> n]
DictRef(i) == [t |-> "dict", id |-> i]
DictLiteral(d) == [t |-> "dictlit", content |-> d]
Attr(name) == [t |-> "attr", name |-> name]
Scalars == {None, IntValue(1)}
DictContents == UNION {[D -> SubValues] : D \in SUBSET SubKeys}
\* the dicts callers pass to set
DictLiterals == {d \in DictContents : Cardinality(DOMAIN d) <= 1}
SetArgs == Scalars \cup {DictLiteral(d) : d \in DictLiterals}

\* dict.update(other)
dict_update(d, other) ==
    [k \in DOMAIN d \cup DOMAIN other |->
        IF k \in DOMAIN other THEN other[k] ELSE d[k]]

\* dict.get(key)
dict_get(d, key) == IF key \in DOMAIN d THEN d[key] ELSE None

\* truth value of a stored value: None, 0 and the empty dict are falsy
Truthy(v, h) ==
    CASE v.t = "None" -> FALSE
      [] v.t = "int" -> v.v # 0
      [] v.t = "dict" -> DOMAIN h[v.id] # {}
      [] OTHER -> TRUE

\* PropertyCache.set, the test of line 237
SetUpdatesInPlace(data, h, key, arg) ==
    LET _current == dict_get(data, key)
    IN Truthy(_current, h) /\ _current.t = "dict" /\ arg.t = "dictlit"

\* PropertyCache.set: the cache's data and the heap after set(key, arg). A dict
\* that is stored is the caller's object: a new cell of the heap.
PropertyCache_set(data, h, key, arg) ==
    IF SetUpdatesInPlace(data, h, key, arg)
    THEN [data |-> data,
          heap |-> [h EXCEPT ![data[key].id] = dict_update(@, arg.content)]]
    ELSE IF arg.t = "dictlit"
    THEN [data |-> dict_update(data, key :> DictRef(Len(h) + 1)),
          heap |-> Append(h, arg.content)]
    ELSE [data |-> dict_update(data, key :> arg), heap |-> h]

PropertyCache_merge_unchecked(target, arg, cd) ==
    IF arg \notin CacheIds
    THEN [raised |-> TRUE, data |-> cd[target]]
    ELSE [raised |-> FALSE, data |-> dict_update(cd[target], cd[arg])]

\* PropertyCache.merge: the target's data after merge(arg)
PropertyCache_merge(target, arg, cd) ==
    IF arg \notin CacheIds \/ KindOf(arg) # KindOf(target)
    THEN [raised |-> FALSE, data |-> cd[target]]
    ELSE [raised |-> FALSE, data |-> dict_update(cd[target], cd[arg])]

\* PropertyCache.__getattr__(key)
PropertyCache_getattr(data, key) ==
    IF key \in DOMAIN data THEN data[key] ELSE None

\* getattr(cache, key): __getattr__ is the fallback of normal lookup
GetAttr(data, key) ==
    IF key \in PropertyCacheAttrs THEN Attr(key)
    ELSE PropertyCache_getattr(data, key)

\* a stored value with the dict it refers to written out
Deep(v, h) == IF v.t = "dict" THEN [t |-> "dict", content |-> h[v.id]] ELSE v
DeepData(data, h) == [k \in DOMAIN data |-> Deep(data[k], h)]
DictValue(d) == [t |-> "dict", content |-> d]

NoCall == [op |-> "none"]
\* the classes of the module the lookups go to
ClassNames == {"C", "E"}
\* no attribute of the context read or written yet; everSet is the history
\* of the keys written
NoCtxCall == [op |-> "none", everSet |-> {}]
\* no get_* call made yet
NoLookup == [op |-> "none", import_str |-> <<>>, ctx |-> FALSE]
\* the property instances whose wrapped attributes are read, named by their
\* caches, and the names of the wrapped functions
AttrInstances == {"A", "B"}
AttrNames == {"f", "g"}
\* no wrapped attribute was read yet; runs, reads and first are the history
\* of each attribute: calls of the wrapped function, accesses, and what the
\* first access returned
NoAttrAccess ==
    [op |-> "none", accesses |-> 0,
     runs |-> [a \in AttrInstances \X AttrNames |-> 0],
     reads |-> [a \in AttrInstances \X AttrNames |-> 0],
     first |-> [a \in AttrInstances \X AttrNames |-> None]]
\* no PropertyCacheRefResolver call made yet
NoResolver == [op |-> "no call"]

\* a step of the caches leaves the other components alone
CacheOnly == UNCHANGED <<logicVars, refVars, ctxVars, importVars, attrVars>>

\* cache.set(key, arg)
Set(c, key, arg) ==
    /\ nCalls < MaxCalls
    /\ nCalls' = nCalls + 1
    /\ arg.t = "dictlit" /\ ~SetUpdatesInPlace(cacheData[c], heap, key, arg)
          => Len(heap) < MaxDicts
    /\ LET r == PropertyCache_set(cacheData[c], heap, key, arg)
       IN /\ cacheData' = [cacheData EXCEPT ![c] = r.data]
          /\ heap' = r.heap
    /\ call' = [op |-> "set", target |-> c, key |-> key, arg |-> arg]
    /\ CacheOnly

\* target.merge(arg)
Merge(target, arg) ==
    /\ nCalls < MaxCalls
    /\ nCalls' = nCalls + 1
    /\ LET r == PropertyCache_merge(target, arg, cacheData)
       IN /\ cacheData' = [cacheData EXCEPT ![target] = r.data]
          /\ call' = [op |-> "merge", target |-> target, arg |-> arg,
                      raised |-> r.raised]
    /\ UNCHANGED heap
    /\ CacheOnly

CacheSet == \E c \in CacheIds, key \in Keys, arg \in SetArgs : Set(c, key, arg)
CacheMerge == \E target \in CacheIds, arg \in MergeArgs : Merge(target, arg)

NextCache == CacheSet \/ CacheMerge

\* The state after construction: no collection run started, every cache
\* empty (PropertyCache.__init__), no reference handled yet.
Init ==
    /\ lpc = "idle"
    /\ itemsDone = 0
    /\ nodesUsed = 0
    /\ item = NoItem
    /\ opIdx = 0
    /\ op_results = <<>>
    /\ subIdx = 0
    /\ final_results = <<>>
    /\ verdict = None
    /\ lastGroup = NoGroup
    /\ singleCalls = {}
    /\ expected = TRUE
    /\ treeKeys = {}
    /\ evals = NoEvals
    /\ nCalls = 0
    /\ cacheData = [c \in CacheIds |-> <<>>]
    /\ heap = <<>>
    /\ call = NoCall
    /\ resolver = NoResolver
    /\ ydefs_context = DictValue(<<>>)
    /\ ctxCall = NoCtxCall
    /\ nLookups = 0
    /\ made = [c \in ClassNames |-> 0]
    /\ lookup = NoLookup
    /\ yattr = NoAttrAccess

SpecCache ==
    /\ Init
    /\ [][NextCache]_vars

-----------------------------------------------------------------------------
(* Claims about PropertyCache, checked under SpecCache                     *)

\* The step just taken is cache.set(key, arg) with key among keys: an
\* attribute-style get of key then returns arg when arg is no dict, and for a
\* dict arg it returns the dict the key held before updated with arg (arg
\* itself when the key held no dict).
SetThenGet(keys) ==
    (call'.op = "set" /\ call'.key \in keys) =>
        LET c == call'.target
            k == call'.key
            arg == call'.arg
            before == Deep(dict_get(cacheData[c], k), heap)
            got == Deep(GetAttr(cacheData'[c], k), heap')
        IN IF arg.t # "dictlit" THEN got = arg
           ELSE IF before.t = "dict"
                THEN got = DictValue(dict_update(before.content, arg.content))
                ELSE got = DictValue(arg.content)

\* C4 as stated: for every cache key k, set(k, v) followed by an
\* attribute-style get of k returns v for a non-dict v, and v1 updated with
\* v2 for dicts v1 then v2.
C4_SetThenGet == [][SetThenGet(Keys)]_vars

\* The same round trip for the keys that are not names of attributes of the
\* class: this much of C4 holds.
SetThenGetOrdinaryKeys == [][SetThenGet(Keys \ PropertyCacheAttrs)]_vars

\* C5 as stated: A.merge(B) with B of A's kind makes A absorb every entry of
\* B with per-key dict merge: a key holding a dict in both caches holds A's
\* dict updated with B's dict afterwards, a key only A has is unchanged.
C5_MergeIsPerKeyDictMerge ==
    [][(/\ call'.op = "merge"
        /\ call'.arg \in CacheIds
        /\ KindOf(call'.arg) = KindOf(call'.target)) =>
          LET a == call'.target
              b == call'.arg
              A0 == DeepData(cacheData[a], heap)
              B0 == DeepData(cacheData[b], heap)
              A1 == DeepData(cacheData'[a], heap')
          IN \A k \in Keys :
                /\ k \in DOMAIN B0 => k \in DOMAIN A1
                /\ (k \in DOMAIN A0 /\ k \notin DOMAIN B0) =>
                      (k \in DOMAIN A1 /\ A1[k] = A0[k])
                /\ (k \in DOMAIN A0 /\ k \in DOMAIN B0
                      /\ A0[k].t = "dict" /\ B0[k].t = "dict") =>
                      A1[k] = DictValue(dict_update(A0[k].content,
                                                    B0[k].content))
      ]_vars

MergeRefused(c) ==
    /\ c.op = "merge"
    /\ (c.arg \notin CacheIds \/ KindOf(c.arg) # KindOf(c.target))

\* C6: merge with an argument that is not of the target's concrete kind
\* returns without raising and leaves every entry of the target unchanged.
C6_MismatchedMergeIsNoOp ==
    [][MergeRefused(call') =>
          /\ ~call'.raised
          /\ DeepData(cacheData'[call'.target], heap')
               = DeepData(cacheData[call'.target], heap)
      ]_vars

\* A.merge(X) was refused while both A and X held entries
C6_Witness ==
    /\ MergeRefused(call)
    /\ call.target = "A" /\ call.arg = "X"
    /\ DOMAIN cacheData["A"] # {}
    /\ DOMAIN cacheData["X"] # {}
    /\ DOMAIN cacheData["X"] \ DOMAIN cacheData["A"] # {}

\* C7 as stated: set and merge on a cache change only that cache's own
\* storage: every entry of every other cache, dict-valued ones included,
\* has the value it had before the call.
C7_CallsChangeOnlyTheTarget ==
    [][call'.op \in {"set", "merge"} =>
          \A c \in CacheIds \ {call'.target} :
              DeepData(cacheData'[c], heap') = DeepData(cacheData[c], heap)
      ]_vars

SpecLogic ==
    /\ Init
    /\ [][NextLogic]_vars

-----------------------------------------------------------------------------
(* PropertyCacheRefResolver                                                *)

\* dot-separated names after the prefix of a reference string at most
MaxSegments == 3

StrValue(s) == [t |-> "str", s |-> s]
\* a list of strings, each one a name
ListValue(l) == [t |-> "list", items |-> l]
\* a PropertyCache object held as a value
CacheObj(c) == [t |-> "cache", id |-> c]

RefNames == {"p", "k"}
RECURSIVE DotJoin(_)
DotJoin(segs) ==
    IF segs = <<>> THEN <<>>
    ELSE IF Len(segs) = 1 THEN <<segs[1]>>
    ELSE <<segs[1], ".">> \o DotJoin(Tail(segs))
RefBodies ==
    {DotJoin(segs) : segs \in UNION {[1..n -> RefNames] : n \in 0..MaxSegments}}
RefPrefixes ==
    {Str("$"), <<"@", "checks", ".", "c", ".">>, <<"@", "checks", ".">>,
     Str("@"), <<>>}
RefSuffixes == {<<>>, <<":", "str">>, <<":", "comma_join">>}
RefStrings ==
    {p \o b \o f : p \in RefPrefixes, b \in RefBodies, f \in RefSuffixes}
\* what a caller may hand in as refstr: a string, or something that is none
RefInputs == {StrValue(s) : s \in RefStrings} \cup {None, IntValue(1)}

\* the checks dict of a run: check "c", whose cache is PropertyCache A; the
\* property "p" of that check owns PropertyCache B
ChecksDict == Str("c") :> "A"
CheckCache == "A"
PropertyName == Str("p")
PropertyOwnCache == "B"
PropertyCacheKey == Str("k")
\* the variables of a run, as vars.resolve finds them
RunVars == (Str("p") :> IntValue(1)) @@ (Str("k") :> ListValue(<<"x", "y">>))
vars_resolve(varname) ==
    IF varname \in DOMAIN RunVars THEN RunVars[varname] ELSE None

\* str.startswith
StartsWith(s, prefix) ==
    Len(s) >= Len(prefix) /\ SubSeq(s, 1, Len(prefix)) = prefix

\* str.find, counting from 1; 0 when sep does not occur
Find(s, sep) ==
    LET hits == {i \in 1..(Len(s) - Len(sep) + 1) :
                    SubSeq(s, i, i + Len(sep) - 1) = sep}
    IN IF hits = {} THEN 0 ELSE CHOOSE i \in hits : \A j \in hits : i <= j

\* str.partition: <<head, sep, tail>>, or <<s, "", "">> when sep is absent
partition(s, sep) ==
    LET i == Find(s, sep)
    IN IF i = 0 THEN <<s, <<>>, <<>>>>
       ELSE <<SubSeq(s, 1, i - 1), sep, SubSeq(s, i + Len(sep), Len(s))>>

is_valid_cache_ref_at_only(refstr) ==
    IF refstr.t # "str" THEN FALSE
    ELSE IF ~StartsWith(refstr.s, Str("@")) THEN FALSE
    ELSE TRUE

\* PropertyCacheRefResolver.is_valid_cache_ref
is_valid_cache_ref(refstr) ==
    IF refstr.t # "str" THEN FALSE
    ELSE IF ~(StartsWith(refstr.s, Str("@")) \/ StartsWith(refstr.s, Str("$")))
    THEN FALSE
    ELSE TRUE

reftype_any_at(refstr) ==
    IF StartsWith(refstr, Str("$")) THEN Returned("variable")
    ELSE IF StartsWith(refstr, Str("@")) THEN Returned("checks")
    ELSE Raised("unknown ref type")

\* PropertyCacheRefResolver.reftype, of the string self.refstr
reftype(refstr) ==
    IF StartsWith(refstr, Str("$")) THEN Returned("variable")
    ELSE IF StartsWith(refstr, <<"@", "checks", ".">>) THEN Returned("checks")
    ELSE Raised("unknown ref type")

\* PropertyCacheRefResolver.check_name, of a reference of type checks
check_name(refstr) ==
    partition(partition(refstr, <<"@", "checks", ".">>)[3], Str("."))[1]

\* PropertyCacheRefResolver._ref_body
_ref_body(refstr) ==
    LET prefix == IF reftype(refstr).result = "variable" THEN Str("$")
                  ELSE <<"@", "checks", ".">> \o check_name(refstr) \o Str(".")
    IN partition(refstr, prefix)[3]

\* PropertyCacheRefResolver.property_name, of a reference of type checks
property_name(refstr) == partition(_ref_body(refstr), Str("."))[1]

property_cache_key_first_segment(refstr) ==
    LET _key == partition(_ref_body(refstr), Str("."))[3]
    IN partition(partition(_key, Str(":"))[1], Str("."))[1]

\* PropertyCacheRefResolver.property_cache_key, of a reference of type checks
property_cache_key(refstr) ==
    LET _key == partition(_ref_body(refstr), Str("."))[3]
    IN partition(_key, Str(":"))[1]

\* PropertyCacheRefResolver.property_cache_value_renderer_function
property_cache_value_renderer_function(refstr) ==
    LET _key == IF reftype(refstr).result = "checks"
                THEN partition(_ref_body(refstr), Str("."))[3]
                ELSE _ref_body(refstr)
    IN partition(_key, Str(":"))[3]

\* the text str() makes of a dict or a list, and the text ', '.join() makes
\* of the keys of a dict
StrOf(v) == [t |-> "str of", v |-> v]
CommaJoinOf(v) == [t |-> "comma_join of", v |-> v]
BuiltinNames == {Str("str")}

\* builtins.str(value)
py_str(value, h) ==
    CASE value.t = "int" -> StrValue(<<ToString(value.v)>>)
      [] value.t = "str" -> value
      [] value.t = "None" -> StrValue(<<"None">>)
      [] OTHER -> StrOf(Deep(value, h))

\* ', '.join(items) of a list of names
RECURSIVE CommaJoin(_)
CommaJoin(items) ==
    IF items = <<>> THEN <<>>
    ELSE IF Len(items) = 1 THEN <<items[1]>>
    ELSE <<items[1], ",", " ">> \o CommaJoin(Tail(items))

\* ', '.join(value): of a list, of a dict (its keys), of anything else
py_comma_join(value, h) ==
    CASE value.t = "list" -> Returned(StrValue(CommaJoin(value.items)))
      [] value.t = "dict" -> Returned(CommaJoinOf(Deep(value, h)))
      [] OTHER -> Raised("TypeError")

\* PropertyCacheRefResolver.apply_renderer_function
apply_renderer_function(refstr, value, h) ==
    LET func == property_cache_value_renderer_function(refstr)
    IN IF func # <<>>
       THEN IF func = Str("comma_join")
            THEN py_comma_join(value, h)
            ELSE IF func \in BuiltinNames
            THEN Returned(py_str(value, h))
            ELSE Raised("AttributeError")
       ELSE Returned(value)

\* PropertyCacheRefResolver.__init__(refstr, vars, checks): checks tells
\* whether a checks dict was handed in
PropertyCacheRefResolver_init(refstr, checks) ==
    IF ~is_valid_cache_ref(refstr)
    THEN Raised("is not a valid property cache reference or variable")
    ELSE IF reftype(refstr.s).raised THEN reftype(refstr.s)
    ELSE IF reftype(refstr.s).result = "checks" /\ ~checks
    THEN Raised("is a checks cache reference but checks dict not provided")
    ELSE Returned(None)

PropertyCacheRefResolver_resolve_renders_none(refstr, cd, h) ==
    IF reftype(refstr).result = "checks"
    THEN IF check_name(refstr) \notin DOMAIN ChecksDict
         THEN Raised("KeyError")
         ELSE LET check_cache == cd[ChecksDict[check_name(refstr)]]
                  property_cache == GetAttr(check_cache, property_name(refstr))
              IN IF property_cache.t # "cache"
                 THEN Raised("AttributeError")
                 ELSE apply_renderer_function(refstr,
                          GetAttr(cd[property_cache.id],
                                  property_cache_key(refstr)), h)
    ELSE LET varname == partition(partition(refstr, Str("$"))[3], Str(":"))[1]
         IN apply_renderer_function(refstr, vars_resolve(varname), h)

\* PropertyCacheRefResolver.resolve, of a constructed resolver
PropertyCacheRefResolver_resolve(refstr, cd, h) ==
    IF reftype(refstr).result = "checks"
    THEN IF check_name(refstr) \notin DOMAIN ChecksDict
         THEN Raised("KeyError")
         ELSE LET check_cache == cd[ChecksDict[check_name(refstr)]]
                  property_cache == GetAttr(check_cache, property_name(refstr))
              IN IF property_cache.t # "cache"
                 THEN Raised("AttributeError")
                 ELSE LET val == GetAttr(cd[property_cache.id],
                                         property_cache_key(refstr))
                      IN IF val = None THEN Returned(None)
                         ELSE apply_renderer_function(refstr, val, h)
    ELSE LET varname == partition(partition(refstr, Str("$"))[3], Str(":"))[1]
             val == vars_resolve(varname)
         IN IF val = None THEN Returned(None)
            ELSE apply_renderer_function(refstr, val, h)

\* a step of the resolver leaves the other components alone
RefOnly == UNCHANGED <<logicVars, cacheVars, ctxVars, importVars, attrVars>>

\* PropertyCacheRefResolver.is_valid_cache_ref(x). A behaviour follows one
\* reference string: it is tested, or a resolver is constructed from it.
IsValidCacheRef ==
    /\ resolver = NoResolver
    /\ \E x \in RefInputs :
          resolver' = [op |-> "is_valid_cache_ref", refstr |-> x,
                       ret |-> is_valid_cache_ref(x)]
    /\ RefOnly

\* PropertyCacheRefResolver(x, vars, checks)
Construct ==
    /\ resolver = NoResolver
    /\ \E x \in RefInputs, checks \in BOOLEAN :
          resolver' = [op |-> "init", refstr |-> x, checks |-> checks,
                       outcome |-> PropertyCacheRefResolver_init(x, checks)]
    /\ RefOnly

\* resolve() of the resolver that was constructed
Resolve ==
    /\ \/ resolver.op = "init" /\ ~resolver.outcome.raised
       \/ resolver.op = "resolve"
    /\ resolver' = [op |-> "resolve", refstr |-> resolver.refstr,
                    checks |-> resolver.checks,
                    outcome |-> PropertyCacheRefResolver_resolve(
                                    resolver.refstr.s, cacheData, heap)]
    /\ RefOnly

\* the property stores a result under its cache key in its own cache
PropertyStores ==
    \E arg \in SetArgs : Set(PropertyOwnCache, PropertyCacheKey, arg)

\* the property's cache is stored in the cache of its check
CheckRegisters ==
    Set(CheckCache, PropertyName, CacheObj(PropertyOwnCache))

NextRef ==
    \/ IsValidCacheRef
    \/ Construct
    \/ Resolve
    \/ PropertyStores
    \/ CheckRegisters

SpecRef ==
    /\ Init
    /\ [][NextRef]_vars

IsDollarRef(x) == x.t = "str" /\ StartsWith(x.s, Str("$"))
IsChecksRef(x) == x.t = "str" /\ StartsWith(x.s, <<"@", "checks", ".">>)
IsAtRef(x) == x.t = "str" /\ StartsWith(x.s, Str("@"))

\* C8 as stated: is_valid_cache_ref(s) is true iff s is a string that starts
\* with '$' or with '@checks.'.
C8_ValidIffDollarOrChecks ==
    resolver.op = "is_valid_cache_ref" =>
        (resolver.ret <=> (IsDollarRef(resolver.refstr)
                             \/ IsChecksRef(resolver.refstr)))

\* C8: is_valid_cache_ref(s) is true iff s is a string that starts with '$'
\* or with '@', whatever follows the '@'; every other string and every
\* non-string is reported invalid.
C8_ValidIffDollarOrAt ==
    resolver.op = "is_valid_cache_ref" =>
        (resolver.ret <=> (IsDollarRef(resolver.refstr)
                             \/ IsAtRef(resolver.refstr)))

\* a string that starts with '@' but not with '@checks.' was reported valid
C8_Witness ==
    /\ resolver.op = "is_valid_cache_ref"
    /\ IsAtRef(resolver.refstr) /\ ~IsChecksRef(resolver.refstr)
    /\ resolver.ret

\* C9: constructing a PropertyCacheRefResolver raises when the string starts
\* with neither '$' nor '@checks.' (or is no string), raises when the string
\* starts with '@checks.' and no checks dict is handed in, and succeeds in
\* every other case.
C9_ConstructorRaises ==
    resolver.op = "init" =>
        (resolver.outcome.raised <=>
            \/ ~(IsDollarRef(resolver.refstr) \/ IsChecksRef(resolver.refstr))
            \/ IsChecksRef(resolver.refstr) /\ ~resolver.checks)

\* a constructor call that raised although a checks dict was handed in and
\* is_valid_cache_ref accepts the string
C9_Witness ==
    /\ resolver.op = "init"
    /\ resolver.checks
    /\ IsAtRef(resolver.refstr) /\ ~IsChecksRef(resolver.refstr)
    /\ resolver.outcome.raised

\* the reference @checks.c.p.k
RefCPK == <<"@", "checks", ".", "c", ".", "p", ".", "k">>

\* C10: resolve() of @checks.c.p.k returns the value stored last under key k
\* of property p in the cache of check c, and returns None without raising
\* when no value was stored, also when p has stored nothing in c's cache.
C10_ResolveStoredOrNone ==
    [][(resolver'.op = "resolve" /\ resolver'.refstr.s = RefCPK
          /\ UNCHANGED cacheVars) =>
         /\ ~resolver'.outcome.raised
         /\ resolver'.outcome.result =
               IF PropertyName \in DOMAIN cacheData[CheckCache]
               THEN dict_get(cacheData[PropertyOwnCache], PropertyCacheKey)
               ELSE None
      ]_vars

\* Once the cache of property p is stored in the cache of check c, resolve()
\* of @checks.c.p.k does return the value stored under k, or None.
ResolveRegisteredProperty ==
    [][(resolver'.op = "resolve" /\ resolver'.refstr.s = RefCPK
          /\ UNCHANGED cacheVars
          /\ PropertyName \in DOMAIN cacheData[CheckCache]) =>
         /\ ~resolver'.outcome.raised
         /\ resolver'.outcome.result =
               dict_get(cacheData[PropertyOwnCache], PropertyCacheKey)
      ]_vars

\* the value a reference is about: the run variable named between '$' and
\* ':', or what is stored under key k of property p of check c
C11_Value(s, cd) ==
    IF s[1] = "$"
    THEN vars_resolve(partition(Tail(s), Str(":"))[1])
    ELSE dict_get(cd[PropertyOwnCache], PropertyCacheKey)

\* the name after the ':' of a reference, empty when there is none
C11_Func(s) == partition(s, Str(":"))[3]

\* the references C11 is checked on: every variable reference, and
\* @checks.c.p.k[:func] once the cache of p is stored in the cache of c
C11_Applies(s, cd) ==
    \/ StartsWith(s, Str("$"))
    \/ /\ \E f \in RefSuffixes : s = RefCPK \o f
       /\ PropertyName \in DOMAIN cd[CheckCache]

\* C11: resolve() returns None, with no transform applied, when the value
\* the reference is about is None; otherwise with ':comma_join' it returns
\* the value joined with ', ', with ':str' the built-in str of the value, and
\* with no suffix the value itself.
C11_TransformAppliedUnlessNone ==
    [][(resolver'.op = "resolve" /\ UNCHANGED cacheVars
          /\ C11_Applies(resolver'.refstr.s, cacheData)) =>
         LET s == resolver'.refstr.s
             val == C11_Value(s, cacheData)
             func == C11_Func(s)
         IN resolver'.outcome =
               IF val = None THEN Returned(None)
               ELSE IF func = <<>> THEN Returned(val)
               ELSE IF func = Str("comma_join")
               THEN py_comma_join(val, heap)
               ELSE Returned(py_str(val, heap))
      ]_vars

\* a reference with a ':func' suffix was resolved, its value was None, and
\* None came back
C11_Witness ==
    /\ resolver.op = "resolve"
    /\ C11_Applies(resolver.refstr.s, cacheData)
    /\ C11_Func(resolver.refstr.s) # <<>>
    /\ C11_Value(resolver.refstr.s, cacheData) = None
    /\ resolver.outcome = Returned(None)

\* a list was resolved through ':comma_join' and came back joined
C11_JoinedList ==
    /\ resolver.op = "resolve"
    /\ resolver.outcome = Returned(StrValue(<<"x", ",", " ", "y">>))

-----------------------------------------------------------------------------
(* YDefsContext                                                            *)

\* the key of the import cache in the context
ImportCacheKey == Str("import_cache")
\* the name of the attribute that holds the context's dict
YDefsContextKey == Str("_ydefs_context")
\* names normal attribute lookup finds on every object
ObjectAttrs == {Str("__class__")}
CtxKeys == {Str("k"), ImportCacheKey, YDefsContextKey, Str("__class__")}
CtxValues == {IntValue(1), IntValue(0), DictValue(<<>>)}

YDefsContext_getattr_raises(yc, key) ==
    IF key = YDefsContextKey THEN Returned(yc)
    ELSE IF key \in ObjectAttrs THEN Returned(Attr(key))
    ELSE IF yc.t # "dict" THEN Raised("AttributeError")
    ELSE IF key \in DOMAIN yc.content THEN Returned(yc.content[key])
    ELSE Raised("KeyError")

\* getattr(context, key): __getattr__ is the fallback of normal lookup, and
\* reads self._ydefs_context.get(key)
YDefsContext_getattr(yc, key) ==
    IF key = YDefsContextKey THEN Returned(yc)
    ELSE IF key \in ObjectAttrs THEN Returned(Attr(key))
    ELSE IF yc.t # "dict" THEN Raised("AttributeError")
    ELSE Returned(dict_get(yc.content, key))

\* setattr(context, key, value): YDefsContext.__setattr__; the read of
\* self._ydefs_context raises when it holds no dict
YDefsContext_setattr(yc, key, value) ==
    IF key # YDefsContextKey
    THEN IF yc.t # "dict" THEN [raised |-> TRUE, yc |-> yc]
         ELSE [raised |-> FALSE,
               yc |-> DictValue(dict_update(yc.content, key :> value))]
    ELSE [raised |-> FALSE, yc |-> value]

\* a step of the context leaves the other components alone
CtxOnly == UNCHANGED <<logicVars, cacheVars, refVars, importVars, attrVars>>

\* context.<key>
CtxGet ==
    /\ \E key \in CtxKeys :
          ctxCall' = [op |-> "get", key |-> key,
                      outcome |-> YDefsContext_getattr(ydefs_context, key),
                      everSet |-> ctxCall.everSet]
    /\ UNCHANGED ydefs_context
    /\ CtxOnly

\* context.<key> = value
CtxSet ==
    /\ \E key \in CtxKeys, value \in CtxValues :
          LET r == YDefsContext_setattr(ydefs_context, key, value)
          IN /\ ydefs_context' = r.yc
             /\ ctxCall' = [op |-> "set", key |-> key, value |-> value,
                            raised |-> r.raised,
                            everSet |-> ctxCall.everSet \cup {key}]
    /\ CtxOnly

NextContext == CtxGet \/ CtxSet

SpecContext ==
    /\ Init
    /\ [][NextContext]_vars

\* what C18 says of one step of the context, for the keys in ks: a key that
\* was never set reads None; after a set of k to v, k reads v and every
\* other key of ks reads what it read before
GetSetLaw(ks) ==
    /\ (ctxCall'.op = "get" /\ ctxCall'.key \in ks
          /\ ctxCall'.key \notin ctxCall.everSet)
         => ctxCall'.outcome = Returned(None)
    /\ (ctxCall'.op = "set" /\ ctxCall'.key \in ks /\ ctxCall' # ctxCall)
         => /\ ~ctxCall'.raised
            /\ YDefsContext_getattr(ydefs_context', ctxCall'.key)
                  = Returned(ctxCall'.value)
            /\ \A k2 \in ks \ {ctxCall'.key} :
                  YDefsContext_getattr(ydefs_context', k2)
                     = YDefsContext_getattr(ydefs_context, k2)

-----------------------------------------------------------------------------
(* YPropertyBase: dynamic lookup                                           *)

\* get_* calls in one run at most
MaxLookups == 3

ModuleObj(name) == [t |-> "module", name |-> name]
ClassObj(c) == [t |-> "class", name |-> c]
Instance(c, n) == [t |-> "inst", cls |-> c, id |-> n]
BoundMethod(inst, name) == [t |-> "method", self |-> inst, name |-> name]

\* The importable world: one module m with the classes C and E and the
\* attribute a; both classes have the properties p and q and the method f;
\* q is 0 and an instance of E is falsy (E defines __len__, which gives 0).
ModuleNames == {"m"}
ModuleAttrs ==
    ("C" :> ClassObj("C")) @@ ("E" :> ClassObj("E")) @@ ("a" :> IntValue(1))
PropertyValues == ("p" :> IntValue(1)) @@ ("q" :> IntValue(0))
MethodNames == {"f"}
MethodResult == IntValue(1)
FalsyInstances == {"E"}

\* the identifiers handed to the get_* methods
ImportStrings ==
    {DotJoin(segs) : segs \in
        {<<"m">>, <<"m", "C">>, <<"m", "E">>, <<"m", "a">>, <<"m", "X">>,
         <<"x", "C">>, <<"m", "C", "p">>, <<"m", "C", "q">>,
         <<"m", "C", "f">>, <<"m", "C", "x">>, <<"m", "E", "p">>,
         <<"m", "E", "q">>, <<"m", "a", "p">>, <<"x", "C", "p">>}}

\* str.rfind, counting from 1; 0 when sep does not occur
FindLast(s, sep) ==
    LET hits == {i \in 1..(Len(s) - Len(sep) + 1) :
                    SubSeq(s, i, i + Len(sep) - 1) = sep}
    IN IF hits = {} THEN 0 ELSE CHOOSE i \in hits : \A j \in hits : i >= j

\* str.rpartition: <<head, sep, tail>>, or <<"", "", s>> when sep is absent
rpartition(s, sep) ==
    LET i == FindLast(s, sep)
    IN IF i = 0 THEN <<<<>>, <<>>, s>>
       ELSE <<SubSeq(s, 1, i - 1), sep, SubSeq(s, i + Len(sep), Len(s))>>

\* truth value of an object, as "if ret" and "if not cls_inst" see it
py_bool(v) ==
    CASE v.t = "None" -> FALSE
      [] v.t = "int" -> v.v # 0
      [] v.t = "dict" -> DOMAIN v.content # {}
      [] v.t = "inst" -> v.cls \notin FalsyInstances
      [] OTHER -> TRUE

\* importlib.import_module(mod)
import_module(mod) ==
    IF mod = <<>> THEN Raised("ValueError")
    ELSE IF Len(mod) = 1 /\ mod[1] \in ModuleNames
    THEN Returned(ModuleObj(mod[1]))
    ELSE Raised("ModuleNotFoundError")

\* getattr(obj, name) of a module or of an instance
py_getattr(obj, name) ==
    IF Len(name) # 1 THEN Raised("AttributeError")
    ELSE CASE obj.t = "module" ->
                 IF name[1] \in DOMAIN ModuleAttrs
                 THEN Returned(ModuleAttrs[name[1]])
                 ELSE Raised("AttributeError")
           [] obj.t = "inst" ->
                 IF name[1] \in DOMAIN PropertyValues
                 THEN Returned(PropertyValues[name[1]])
                 ELSE IF name[1] \in MethodNames
                 THEN Returned(BoundMethod(obj, name[1]))
                 ELSE Raised("AttributeError")
           [] OTHER -> Raised("AttributeError")

\* "{}".format(cls)
FormatOf(v) ==
    CASE v.t = "class" -> <<"<class>", v.name>>
      [] v.t = "int" -> <<ToString(v.v)>>
      [] OTHER -> <<"<object>">>

\* what a call has done so far: import_module calls, instances constructed,
\* getattr calls, reads of the import cache, method calls
NoEvents ==
    [imports |-> 0, insts |-> 0, attrs |-> 0, reads |-> 0, mcalls |-> 0]

\* The state a call works on: the context's dict, the instances constructed
\* per class, the events of the call.
World(yc, m) == [yc |-> yc, made |-> m, ev |-> NoEvents]

\* cls(): a new instance of a class; anything else is not callable here
Instantiate(w, cls) ==
    IF cls.t # "class" THEN [w |-> w, out |-> Raised("TypeError")]
    ELSE [w |-> [w EXCEPT !.made[cls.name] = @ + 1, !.ev.insts = @ + 1],
          out |-> Returned(Instance(cls.name, w.made[cls.name] + 1))]

\* YPropertyBase._load_from_import_cache(key); ctx tells whether the
\* property has a context
_load_from_import_cache(w, ctx, key) ==
    IF ~ctx THEN [w |-> w, val |-> None]
    ELSE IF py_bool(YDefsContext_getattr(w.yc, ImportCacheKey).result)
    THEN [w |-> [w EXCEPT !.ev.reads = @ + 1],
          val |-> dict_get(YDefsContext_getattr(w.yc, ImportCacheKey)
                              .result.content, key)]
    ELSE [w |-> w, val |-> None]

\* YPropertyBase._add_to_import_cache(key, value)
_add_to_import_cache(w, ctx, key, value) ==
    IF ~ctx THEN w
    ELSE IF py_bool(YDefsContext_getattr(w.yc, ImportCacheKey).result)
    THEN [w EXCEPT !.yc = YDefsContext_setattr(w.yc, ImportCacheKey,
             DictValue(dict_update(
                 YDefsContext_getattr(w.yc, ImportCacheKey).result.content,
                 key :> value))).yc]
    ELSE [w EXCEPT !.yc = YDefsContext_setattr(w.yc, ImportCacheKey,
             DictValue(key :> value)).yc]

\* The({e(x) : x \in {v}}) is e(x) with x standing for the value of v: the
\* value of an intermediate result is worked out once.
The(S) == CHOOSE x \in S : TRUE

\* getattr(importlib.import_module(mod), name)
ImportAttr(w, mod, name) ==
    The({IF m.raised
         THEN [w |-> [w EXCEPT !.ev.imports = @ + 1], out |-> m]
         ELSE [w |-> [w EXCEPT !.ev.imports = @ + 1, !.ev.attrs = @ + 1],
               out |-> py_getattr(m.result, name)]
         : m \in {import_module(mod)}})

\* YPropertyBase.get_cls, after the miss in the import cache
GetClsImport(w, ctx, import_str) ==
    The({IF r.out.raised THEN r
         ELSE [w |-> _add_to_import_cache(r.w, ctx, import_str, r.out.result),
               out |-> r.out]
         : r \in {ImportAttr(w, rpartition(import_str, Str("."))[1],
                             rpartition(import_str, Str("."))[3])}})

\* YPropertyBase.get_cls
get_cls(w, ctx, import_str) ==
    The({IF py_bool(l.val) THEN [w |-> l.w, out |-> Returned(l.val)]
         ELSE GetClsImport(l.w, ctx, import_str)
         : l \in {_load_from_import_cache(w, ctx, import_str)}})

\* YPropertyBase.get_property, from the instance on: getattr(cls_inst,
\* property) and the store under import_str
GetPropertyOf(w, ctx, import_str, cls_inst) ==
    The({IF r.raised THEN [w |-> [w EXCEPT !.ev.attrs = @ + 1], out |-> r]
         ELSE [w |-> _add_to_import_cache([w EXCEPT !.ev.attrs = @ + 1],
                                          ctx, import_str, r.result),
               out |-> r]
         : r \in {py_getattr(cls_inst,
                             rpartition(import_str, Str("."))[3])}})

\* YPropertyBase.get_property, from the class on: the instance is loaded
\* from the import cache or constructed and stored
GetPropertyOfClass(w, ctx, import_str, cls) ==
    The({IF ~py_bool(li.val)
         THEN The({IF n.out.raised THEN n
                   ELSE GetPropertyOf(
                           _add_to_import_cache(
                               n.w, ctx, FormatOf(cls) \o <<".", "object">>,
                               n.out.result),
                           ctx, import_str, n.out.result)
                   : n \in {Instantiate(li.w, cls)}})
         ELSE GetPropertyOf(li.w, ctx, import_str, li.val)
         : li \in {_load_from_import_cache(
                      w, ctx, FormatOf(cls) \o <<".", "object">>)}})

\* YPropertyBase.get_property
get_property(w, ctx, import_str) ==
    The({IF py_bool(l.val) THEN [w |-> l.w, out |-> Returned(l.val)]
         ELSE The({IF c.out.raised THEN c
                   ELSE GetPropertyOfClass(c.w, ctx, import_str, c.out.result)
                   : c \in {get_cls(l.w, ctx,
                                    rpartition(import_str, Str("."))[1])}})
         : l \in {_load_from_import_cache(w, ctx, import_str)}})

\* YPropertyBase.get_method, from the instance on: getattr(cls(), property)()
GetMethodOf(w, inst, property) ==
    The({IF a.raised THEN [w |-> [w EXCEPT !.ev.attrs = @ + 1], out |-> a]
         ELSE IF a.result.t # "method"
         THEN [w |-> [w EXCEPT !.ev.attrs = @ + 1],
               out |-> Raised("TypeError")]
         ELSE [w |-> [w EXCEPT !.ev.attrs = @ + 1, !.ev.mcalls = @ + 1],
               out |-> Returned(MethodResult)]
         : a \in {py_getattr(inst, property)}})

\* YPropertyBase.get_method, from the class on
GetMethodOfClass(w, cls, property) ==
    The({IF n.out.raised THEN n
         ELSE GetMethodOf(n.w, n.out.result, property)
         : n \in {Instantiate(w, cls)}})

get_method_memoized(w, import_str) ==
    The({IF py_bool(l.val) THEN [w |-> l.w, out |-> Returned(l.val)]
         ELSE The({IF c.out.raised THEN c
                   ELSE The({IF r.out.raised THEN r
                             ELSE [w |-> _add_to_import_cache(
                                            r.w, TRUE, import_str,
                                            r.out.result),
                                   out |-> r.out]
                             : r \in {GetMethodOfClass(
                                         c.w, c.out.result,
                                         rpartition(import_str,
                                                    Str("."))[3])}})
                   : c \in {ImportAttr(
                       l.w,
                       rpartition(rpartition(import_str, Str("."))[1],
                                  Str("."))[1],
                       rpartition(rpartition(import_str, Str("."))[1],
                                  Str("."))[3])}})
         : l \in {_load_from_import_cache(w, TRUE, import_str)}})

\* YPropertyBase.get_method
get_method(w, import_str) ==
    The({IF c.out.raised THEN c
         ELSE GetMethodOfClass(c.w, c.out.result,
                               rpartition(import_str, Str("."))[3])
         : c \in {ImportAttr(
                     w,
                     rpartition(rpartition(import_str, Str("."))[1],
                                Str("."))[1],
                     rpartition(rpartition(import_str, Str("."))[1],
                                Str("."))[3])}})

\* YPropertyBase.get_attribute
get_attribute(w, import_str) ==
    The({IF r.out.raised /\ r.out.error = "AttributeError"
         THEN [w |-> r.w, out |-> Raised("ImportError")]
         ELSE r
         : r \in {ImportAttr(w, rpartition(import_str, Str("."))[1],
                             rpartition(import_str, Str("."))[3])}})

get_import_first_error(w, ctx, import_str) ==
    The({IF ~p.out.raised
         THEN [w |-> p.w, out |-> p.out, tried |-> <<"get_property">>]
         ELSE The({[w |-> a.w,
                    out |-> IF a.out.raised THEN p.out ELSE a.out,
                    tried |-> <<"get_property", "get_attribute">>]
                   : a \in {get_attribute(p.w, import_str)}})
         : p \in {get_property(w, ctx, import_str)}})

\* YPropertyBase.get_import; tried lists the methods it called
get_import(w, ctx, import_str) ==
    The({IF ~p.out.raised
         THEN [w |-> p.w, out |-> p.out, tried |-> <<"get_property">>]
         ELSE The({[w |-> a.w, out |-> a.out,
                    tried |-> <<"get_property", "get_attribute">>]
                   : a \in {get_attribute(p.w, import_str)}})
         : p \in {get_property(w, ctx, import_str)}})

\* a step of the lookup leaves the other components alone
ImportOnly == UNCHANGED <<logicVars, cacheVars, refVars, ctxCall, attrVars>>

\* the same call as the one before
Again(op, import_str, ctx) ==
    /\ lookup.op = op
    /\ lookup.import_str = import_str
    /\ lookup.ctx = ctx

\* One get_* call has returned or raised: r is what it did. The context's
\* dict and the instance counts are what the call left.
Looked(op, import_str, ctx, r, tried) ==
    /\ nLookups < MaxLookups
    /\ nLookups' = nLookups + 1
    /\ ydefs_context' = r.w.yc
    /\ made' = r.w.made
    /\ lookup' = [op |-> op, import_str |-> import_str, ctx |-> ctx,
                  out |-> r.out, ev |-> r.w.ev, tried |-> tried,
                  again |-> Again(op, import_str, ctx)]
    /\ ImportOnly

GetCls ==
    \E import_str \in ImportStrings, ctx \in BOOLEAN :
        \E r \in {get_cls(World(ydefs_context, made), ctx, import_str)} :
            Looked("get_cls", import_str, ctx, r, <<>>)

GetProperty ==
    \E import_str \in ImportStrings, ctx \in BOOLEAN :
        \E r \in {get_property(World(ydefs_context, made), ctx, import_str)} :
            Looked("get_property", import_str, ctx, r, <<>>)

GetMethod ==
    \E import_str \in ImportStrings, ctx \in BOOLEAN :
        \E r \in {get_method(World(ydefs_context, made), import_str)} :
            Looked("get_method", import_str, ctx, r, <<>>)

GetAttribute ==
    \E import_str \in ImportStrings, ctx \in BOOLEAN :
        \E r \in {get_attribute(World(ydefs_context, made), import_str)} :
            Looked("get_attribute", import_str, ctx, r, <<>>)

GetImport ==
    \E import_str \in ImportStrings, ctx \in BOOLEAN :
        \E r \in {get_import(World(ydefs_context, made), ctx, import_str)} :
            Looked("get_import", import_str, ctx, r, r.tried)

NextImport ==
    \/ GetCls
    \/ GetProperty
    \/ GetMethod
    \/ GetAttribute
    \/ GetImport

SpecImport ==
    /\ Init
    /\ [][NextImport]_vars

\* the import cache of the context, as a function; empty when there is none
ImportCache(yc) ==
    IF ImportCacheKey \in DOMAIN yc.content
    THEN yc.content[ImportCacheKey].content ELSE <<>>

\* a get_* call was just made
LookupStep == nLookups' = nLookups + 1

\* the key under which get_property stores the instance of class c
ObjectKey(c) == FormatOf(ClassObj(c)) \o <<".", "object">>

\* what C12 says of a get_cls / get_property call on an identifier that is
\* in the import cache with a value in vs: the cached value comes back, and
\* nothing is imported, constructed or read from an object
CachedIsReused(vs) ==
    (/\ LookupStep
     /\ lookup'.op \in {"get_cls", "get_property"}
     /\ lookup'.ctx
     /\ lookup'.import_str \in DOMAIN ImportCache(ydefs_context)
     /\ ImportCache(ydefs_context)[lookup'.import_str] \in vs)
    => /\ lookup'.out
             = Returned(ImportCache(ydefs_context)[lookup'.import_str])
       /\ lookup'.ev.imports = 0
       /\ lookup'.ev.insts = 0
       /\ lookup'.ev.attrs = 0

\* the values a lookup can produce
LookupValues ==
    {IntValue(0), IntValue(1)} \cup {ClassObj(c) : c \in ClassNames}
      \cup {BoundMethod(Instance(c, n), f) :
               c \in ClassNames, n \in 1..MaxLookups, f \in MethodNames}

\* C12: once get_cls or get_property has resolved an identifier, every later
\* get_cls / get_property call on it returns the cached object and imports,
\* constructs and reads nothing, whatever the value.
C12_CachedIsReused == [][CachedIsReused(LookupValues)]_vars

\* The same for the values that are truthy.
CachedTruthyIsReused ==
    [][CachedIsReused({v \in LookupValues : py_bool(v)})]_vars

\* C13: a get_property call constructs no instance of a class whose instance
\* is already in the import cache under the '<cls>.object' key, so that each
\* class is instantiated at most once.
C13_OneInstancePerClass ==
    [][(LookupStep /\ lookup'.op = "get_property" /\ lookup'.ctx) =>
          \A c \in ClassNames :
              ObjectKey(c) \in DOMAIN ImportCache(ydefs_context)
                 => made'[c] = made[c]
      ]_vars

\* C14: after a successful get_cls, get_property, get_attribute or
\* get_import call on an identifier, made with a context, the import cache
\* holds the returned value under that identifier.
C14_ResolutionIsCached ==
    [][(/\ LookupStep
        /\ lookup'.op \in {"get_cls", "get_property", "get_attribute",
                           "get_import"}
        /\ lookup'.ctx
        /\ ~lookup'.out.raised)
       => /\ lookup'.import_str \in DOMAIN ImportCache(ydefs_context')
          /\ ImportCache(ydefs_context')[lookup'.import_str]
                = lookup'.out.result
      ]_vars

\* C15: a get_method call never reads the import cache and leaves it as it
\* was; a call that returns has constructed one new instance and called the
\* method once, also when the same call was made before.
C15_MethodNeverMemoized ==
    [][(LookupStep /\ lookup'.op = "get_method") =>
          /\ ydefs_context' = ydefs_context
          /\ lookup'.ev.reads = 0
          /\ ~lookup'.out.raised =>
                /\ lookup'.ev.insts = 1
                /\ lookup'.ev.mcalls = 1
                /\ \E c \in ClassNames : made'[c] = made[c] + 1
      ]_vars

\* the same get_method call was made twice in a row by a property that has
\* a context, and returned
C15_Witness ==
    /\ lookup.op = "get_method"
    /\ lookup.again
    /\ lookup.ctx
    /\ ~lookup.out.raised

ImportErrorKinds == {"ImportError", "ModuleNotFoundError"}

\* C16: a get_cls or get_attribute call on a dotted identifier that fails
\* raises an import error, for a bad module path and for a missing
\* attribute alike.
C16_FailuresAreImportErrors ==
    (/\ lookup.op \in {"get_cls", "get_attribute"}
     /\ Len(lookup.import_str) > 1
     /\ lookup.out.raised)
    => lookup.out.error \in ImportErrorKinds

\* C17: get_import calls get_property first and returns its value when it
\* returns, without calling get_attribute; when get_property raises it calls
\* get_attribute and the caller gets what get_attribute returns or raises.
C17_PropertyThenAttribute ==
    [][(LookupStep /\ lookup'.op = "get_import") =>
          \E p \in {get_property(World(ydefs_context, made), lookup'.ctx,
                                 lookup'.import_str)} :
              IF ~p.out.raised
              THEN /\ lookup'.tried = <<"get_property">>
                   /\ lookup'.out = p.out
              ELSE /\ lookup'.tried = <<"get_property", "get_attribute">>
                   /\ lookup'.out
                         = get_attribute(p.w, lookup'.import_str).out
      ]_vars

\* get_import called both methods, both raised, and the error of
\* get_attribute (no module m.C) reached the caller
C17_Witness ==
    /\ lookup.op = "get_import"
    /\ lookup.import_str = DotJoin(<<"m", "C", "x">>)
    /\ lookup.tried = <<"get_property", "get_attribute">>
    /\ lookup.out = Raised("ModuleNotFoundError")

\* the names a check or a property can have in a reference, and the names
\* of renderer functions
SegmentNames == {Str(n) : n \in RefNames \cup {"c"}}
FuncNames == {<<>>} \cup {Tail(f) : f \in RefSuffixes \ {<<>>}}

\* the reference @checks.<c>.<p>.<k>[:<f>]
ChecksRef(c, p, k, f) ==
    <<"@", "checks", ".">> \o c \o Str(".") \o p \o Str(".") \o k
       \o (IF f = <<>> THEN <<>> ELSE Str(":") \o f)

\* C19: of a reference @checks.<c>.<p>.<k>[:<f>] the check name is c, the
\* property name is p, the cache key is k, dots included, and the renderer
\* function is f, empty when there is no suffix.
C19_ReferenceParts ==
    (resolver.op = "init" /\ resolver.refstr.t = "str") =>
        \A c \in SegmentNames, p \in SegmentNames :
          StartsWith(resolver.refstr.s, ChecksRef(c, p, <<>>, <<>>)) =>
            \A k \in RefBodies, f \in FuncNames :
              resolver.refstr.s = ChecksRef(c, p, k, f) =>
                /\ check_name(resolver.refstr.s) = c
                /\ property_name(resolver.refstr.s) = p
                /\ property_cache_key(resolver.refstr.s) = k
                /\ property_cache_value_renderer_function(resolver.refstr.s)
                      = f

\* a resolver was constructed from @checks.c.p.k.p:str, whose cache key has
\* a dot and which has a renderer function
C19_Witness ==
    /\ resolver.op = "init"
    /\ ~resolver.outcome.raised
    /\ resolver.refstr
          = StrValue(ChecksRef(Str("c"), Str("p"), DotJoin(<<"k", "p">>),
                               Str("str")))

-----------------------------------------------------------------------------
(* cached_yproperty_attr: a property whose getter keeps the result of the  *)
(* wrapped function f in the instance's PropertyCache.                     *)

\* accesses of wrapped attributes in one run at most
MaxAccesses == 3

\* what a wrapped function may return
AttrResults == SetArgs \cup {IntValue(0)}

\* "__yproperty_attr__{}".format(f.__name__)
AttrKey(name) == <<"__yproperty_attr__", name>>

\* _inner(inst), with the instance's cache data, the heap, and fret the value
\* f(inst) returns if it is called: whether f ran, the value returned, and
\* the cache and the heap afterwards
cached_yproperty_attr(data, h, name, fret) ==
    LET key == AttrKey(name)
        ret == GetAttr(data, key)
        r   == PropertyCache_set(data, h, key, fret)
    IN IF ret # None
       THEN [ran |-> FALSE, ret |-> ret, data |-> data, heap |-> h]
       ELSE [ran |-> TRUE, ret |-> r.data[key], data |-> r.data,
             heap |-> r.heap]

\* a read of a wrapped attribute leaves the other components alone
AttrOnly ==
    UNCHANGED <<logicVars, refVars, ctxVars, importVars, nCalls, call>>

\* inst.<name>, for a property wrapped by cached_yproperty_attr
AccessAttr ==
    \E inst \in AttrInstances, name \in AttrNames, fret \in AttrResults :
        /\ yattr.accesses < MaxAccesses
        /\ fret.t = "dictlit" => Len(heap) < MaxDicts
        /\ \E r \in {cached_yproperty_attr(cacheData[inst], heap, name, fret)} :
              \* f returns something only when it is called
              /\ ~r.ran => fret = None
              /\ cacheData' = [cacheData EXCEPT ![inst] = r.data]
              /\ heap' = r.heap
              /\ yattr' =
                    [op |-> "access", inst |-> inst, name |-> name,
                     ran |-> r.ran, ret |-> Deep(r.ret, r.heap),
                     accesses |-> yattr.accesses + 1,
                     runs |-> [yattr.runs EXCEPT ![<<inst, name>>] =
                                  IF r.ran THEN @ + 1 ELSE @],
                     reads |-> [yattr.reads EXCEPT ![<<inst, name>>] = @ + 1],
                     first |-> [yattr.first EXCEPT ![<<inst, name>>] =
                                  IF yattr.reads[<<inst, name>>] = 0
                                  THEN Deep(r.ret, r.heap) ELSE @]]
        /\ AttrOnly

NextAttr == AccessAttr

SpecAttr ==
    /\ Init
    /\ [][NextAttr]_vars

\* C20: the wrapped function runs at most once for each attribute of each
\* property instance, and an access after the first one does not call it and
\* returns what the first access stored.
C20_RunsAtMostOnce ==
    /\ \A a \in AttrInstances \X AttrNames : yattr.runs[a] <= 1
    /\ (yattr.op = "access" /\ yattr.reads[<<yattr.inst, yattr.name>>] > 1) =>
          /\ ~yattr.ran
          /\ yattr.ret = yattr.first[<<yattr.inst, yattr.name>>]

\* what the code does keep: a result other than None is stored under the key
\* of the function, and from then on an access returns it without a call
StoredResultIsReused ==
    [][\A inst \in AttrInstances, name \in AttrNames :
          (/\ AttrKey(name) \in DOMAIN cacheData[inst]
           /\ cacheData[inst][AttrKey(name)] # None
           /\ yattr'.op = "access" /\ yattr'.accesses = yattr.accesses + 1
           /\ yattr'.inst = inst /\ yattr'.name = name) =>
              /\ ~yattr'.ran
              /\ yattr'.runs = yattr.runs
              /\ yattr'.ret = Deep(cacheData[inst][AttrKey(name)], heap)
              /\ cacheData' = cacheData /\ heap' = heap]_vars

\* an attribute whose function returned None twice
RanTwice ==
    \E a \in AttrInstances \X AttrNames : yattr.runs[a] = 2

-----------------------------------------------------------------------------
(* Claims about what a run evaluates, checked under SpecLogic              *)

\* the evaluations of entry j of member item i in the latest group call
CallsOf(i, j) ==
    {k \in DOMAIN evals.calls :
        evals.calls[k].item = i /\ evals.calls[k].entry = j}

\* how often the sequence runs holds x
TimesIn(runs, x) == Cardinality({k \in DOMAIN runs : runs[k] = x})

\* C21: a group handed to a combinator has every member entry evaluated
\* exactly once, whatever the earlier results; the boolean of an entry comes
\* from get_item_result_callback when that returns one, which only an
\* overriding callback does, and from calling the entry when the callback
\* raises NotImplementedError; and a run that returns a verdict has handed
\* every truthy group of every item to run_logical_op_group once and every
\* child under no group key to run_single once.
C21_EveryEntryEvaluatedOnce ==
    /\ lastGroup.name \in Combinators =>
          /\ \A i \in DOMAIN evals.members :
                \A j \in DOMAIN evals.members[i] :
                    /\ Cardinality(CallsOf(i, j)) = 1
                    /\ \A k \in CallsOf(i, j) :
                          /\ evals.calls[k].result = evals.members[i][j]
                          /\ (evals.calls[k].via = "entry")
                                = (evals.callbacks[i][j]
                                      = "NotImplementedError")
                          /\ evals.calls[k].via \in {"entry", "callback"}
                          /\ evals.calls[k].via = "callback"
                                => evals.overridden
          /\ Len(evals.calls) = TotalLen(evals.members)
          /\ lastGroup.results
                = [k \in DOMAIN evals.calls |-> evals.calls[k].result]
    /\ lpc = "done" =>
          /\ \A g \in evals.present : TimesIn(evals.groupRuns, g) = 1
          /\ Len(evals.groupRuns) = Cardinality(evals.present)
          /\ \A c \in evals.children : TimesIn(evals.singleRuns, c) = 1
          /\ Len(evals.singleRuns) = Cardinality(evals.children)
          /\ evals.entryRuns = evals.entries

\* a run that returned FALSE, whose first collected boolean was already
\* FALSE, and that went on to evaluate a second group, every entry of both
\* groups, and a child under no group key
C21_Witness ==
    /\ lpc = "done"
    /\ verdict = FALSE
    /\ Len(final_results) >= 2
    /\ final_results[1] = FALSE
    /\ Len(evals.groupRuns) >= 1
    /\ Len(evals.singleRuns) >= 1
    /\ evals.entryRuns >= 2

\* a group whose first entry gave FALSE through an overriding callback and
\* whose second entry was then evaluated by calling it, after an earlier
\* group of the run had already given FALSE
EvaluatedAfterFalse ==
    /\ lpc \in {"op_groups", "subitems"}
    /\ Len(evals.groupRuns) = 2
    /\ lastGroup.name = "and"
    /\ Len(evals.calls) = 2
    /\ evals.calls[1].result = FALSE /\ evals.calls[1].via = "callback"
    /\ evals.calls[2].via = "entry"
    /\ evals.entryRuns >= 3

\* the place of 'xor' in VALID_GROUP_KEYS
XorIndex == CHOOSE i \in DOMAIN VALID_GROUP_KEYS : VALID_GROUP_KEYS[i] = "xor"

\* C22: once an item with a truthy 'xor' group is iterated the run returns no
\* verdict: it is on its way through the keys before 'xor' or it has raised
\* the unknown-operator error; the raise comes from the 'xor' group and
\* evaluates no member of it; and no child named 'xor' (or by any group key)
\* is passed to run_single.
C22_XorRaisesUnevaluated ==
    /\ (\E g \in evals.present : g[2] = "xor") =>
          /\ verdict = None
          /\ \/ lpc = "error"
             \/ lpc = "op_groups" /\ opIdx <= XorIndex
    /\ lpc = "error" =>
          /\ lastGroup.name = "xor"
          /\ lastGroup.outcome = Raised("unknown logical operator")
          /\ evals.calls = <<>>
          /\ verdict = None
    /\ singleCalls \cap GroupKeySet = {}
    /\ \A k \in DOMAIN evals.singleRuns :
          evals.singleRuns[k] \in evals.children

\* a run that passed over a falsy child named 'xor' in its first item and
\* raised on the 'xor' group of its second item, a group with members, none
\* of them evaluated
C22_Witness ==
    /\ lpc = "error"
    /\ "xor" \in evals.skipped
    /\ evals.groupRuns = <<(<<2, "xor">>)>>
    /\ TotalLen(evals.members) >= 1
    /\ evals.calls = <<>>
    /\ "xor" \notin singleCalls

=============================================================================
